---- MODULE Spec2Model ----
(***************************************************************************)
(* A model of the RLHF notebook src/main.ipynb: build_dataset, collator,   *)
(* the PPO training loop and the before/after evaluation cell.             *)
(*                                                                         *)
(* External libraries are modelled by what the notebook relies on:         *)
(*   - a raw text is a record [id, nchars]; the tokenizer encodes it into  *)
(*     nchars \div CharsPerToken token ids that carry the text's id;       *)
(*   - decoded text is a sequence of pieces <<"tok", t>>, so that string   *)
(*     concatenation is \o and decode is not the identity;                 *)
(*   - generate returns the prompt followed by the new tokens; sampling    *)
(*     may draw the end-of-sequence token before max_new_tokens is used    *)
(*     up (min_length = -1 places no lower limit);                         *)
(*   - the reward pipeline returns, per text and in input order, one       *)
(*     {label, score} entry per label;                                     *)
(*   - the model weights are a version number that the PPO step advances.  *)
(***************************************************************************)
EXTENDS Integers, Sequences, FiniteSets, TLC

(* ------------------------------------------------------------------ *)
(* Bounds of the model                                                 *)
(* ------------------------------------------------------------------ *)
\* longest random corpus given to build_dataset
MaxCorpus == 3
\* longest record list given to collator on its own
MaxRecords == 2
\* a LengthSampler draw is taken within DrawSpread values of either end of its range
DrawSpread == 1
\* rows of the built dataset the trainer iterates over
DatasetSize == 4
\* the trainer's batch size (PPOConfig.batch_size)
BatchSize == 2
\* the evaluation cell's sample size (16 in the notebook)
bs == 2
\* most labels a reward model is given, and most texts scored at once, when
\* reward extraction is examined on its own
MaxLabels == 3
MaxTexts == 2

(* ------------------------------------------------------------------ *)
(* Program constants                                                   *)
(* ------------------------------------------------------------------ *)
MinReviewChars == 200
input_min_text_length == 2
input_max_text_length == 8
output_min_length == 4
output_max_length == 16
\* labels of lvwerra/distilbert-imdb (NEGATIVE, POSITIVE)
NumLabels == 2
\* characters per token of the modelled tokenizer
CharsPerToken == 25
eos_token_id == 50256

(* ------------------------------------------------------------------ *)
(* Python helpers                                                      *)
(* ------------------------------------------------------------------ *)
Min(a, b) == IF a <= b THEN a ELSE b

\* seq[:n] for n >= 0
PyPrefix(seq, n) == SubSeq(seq, 1, Min(n, Len(seq)))

\* seq[-n:] for n >= 0  (seq[-0:] is the whole sequence)
PySuffix(seq, n) ==
    IF n = 0 \/ n >= Len(seq) THEN seq
    ELSE SubSeq(seq, Len(seq) - n + 1, Len(seq))

\* dict with d[key] = value set
DictSet(d, key, value) ==
    [k \in DOMAIN d \cup {key} |-> IF k = key THEN value ELSE d[k]]

\* trl.core.LengthSampler(lo, hi)(): a value of range(lo, hi)
LengthSampler(lo, hi) ==
    {v \in lo..(hi - 1) : v < lo + DrawSpread \/ v >= hi - DrawSpread}

(* ------------------------------------------------------------------ *)
(* Tokenizer                                                           *)
(* ------------------------------------------------------------------ *)
\* tokenizer.encode(text)
Encode(text) ==
    [j \in 1..(text.nchars \div CharsPerToken) |-> 100 * text.id + j]

\* tokenizer.decode(tokens)
Decode(tokens) == [j \in 1..Len(tokens) |-> <<"tok", tokens[j]>>]

VARIABLES
    \* build_dataset
    corpus, ds, bpc,
    \* collator called on its own
    data, result, cpc,
    \* notebook globals
    pc, dataset, weights, refWeights, num_labels, output_length_sampler,
    generation_kwargs, gen_kwargs, batchNo, batch, query_tensors,
    response_tensors, response_tensors_ref, texts, pipe_outputs, rewards,
    statsLog, game_data, df_results,
    \* history: optimisation steps made, exceptions raised, and per example of
    \* the current batch the drawn length and the number of new tokens sampled
    stepCalls, failures, drawn, genNew, genNewRef, sampleIds

buildVars == <<corpus, ds, bpc>>
colVars == <<data, result, cpc>>
sharedVars == <<dataset, weights, refWeights, num_labels, output_length_sampler,
                generation_kwargs, gen_kwargs>>
loopVars == <<batchNo, batch, query_tensors, response_tensors, texts,
              pipe_outputs, rewards, statsLog, stepCalls, failures, drawn, genNew>>
evalVars == <<response_tensors_ref, game_data, df_results, genNewRef, sampleIds>>
nbVars == <<pc, sharedVars, loopVars, evalVars>>
vars == <<buildVars, colVars, nbVars>>

(* ------------------------------------------------------------------ *)
(* build_dataset                                                       *)
(* ------------------------------------------------------------------ *)
\* the filter's predicate: lambda x: len(x["review"]) > 200
keep_review_ge(x) == x.review.nchars >= MinReviewChars
keep_review(x) == x.review.nchars > MinReviewChars

\* ds.rename_columns({"text": "review"})
rename_columns(rows) ==
    [i \in 1..Len(rows) |-> [review |-> rows[i].text, label |-> rows[i].label]]

\* ds.filter(..., batched=False)
filter_rows(rows) == SelectSeq(rows, keep_review)

\* tokenize(sample) with input_size() = n
tokenize(sample, n) ==
    LET ids == PyPrefix(Encode(sample.review), n)
    IN  [review |-> sample.review, label |-> sample.label,
         input_ids |-> ids, query |-> Decode(ids)]

\* load_dataset: one row per raw text, in corpus order
MkCorpus(lens) ==
    [i \in 1..Len(lens) |-> [text |-> [id |-> i, nchars |-> lens[i]], label |-> i % 2]]

ScenarioLens == <<50, 250, 300, 10, 220>>
LenChoices == {MinReviewChars - 1, MinReviewChars, MinReviewChars + 1, 250}
CorpusLens ==
    {ScenarioLens} \cup UNION {[1..n -> LenChoices] : n \in 0..MaxCorpus}

BuildIdle == corpus = <<>> /\ ds = [rows |-> <<>>, format |-> "none"] /\ bpc = "idle"

InitBuild ==
    /\ \E lens \in CorpusLens : corpus = MkCorpus(lens)
    /\ ds = [rows |-> <<>>, format |-> "none"]
    /\ bpc = "load"

\* line 88
Load ==
    /\ bpc = "load"
    /\ ds' = [rows |-> corpus, format |-> "none"]
    /\ bpc' = "rename"
    /\ UNCHANGED <<corpus, colVars, nbVars>>

\* line 89
Rename ==
    /\ bpc = "rename"
    /\ ds' = [ds EXCEPT !.rows = rename_columns(ds.rows)]
    /\ bpc' = "filter"
    /\ UNCHANGED <<corpus, colVars, nbVars>>

\* line 90
Filter ==
    /\ bpc = "filter"
    /\ ds' = [ds EXCEPT !.rows = filter_rows(ds.rows)]
    /\ bpc' = "map"
    /\ UNCHANGED <<corpus, colVars, nbVars>>

\* rows that ds.map has not tokenized yet
Untokenized == {i \in 1..Len(ds.rows) : "input_ids" \notin DOMAIN ds.rows[i]}

\* line 99: ds.map(tokenize) visits the rows in order, one input_size() draw each
MapTokenize ==
    /\ bpc = "map"
    /\ Untokenized /= {}
    /\ LET i == CHOOSE k \in Untokenized : \A m \in Untokenized : k <= m
       IN  \E n \in LengthSampler(input_min_text_length, input_max_text_length) :
               ds' = [ds EXCEPT !.rows[i] = tokenize(ds.rows[i], n)]
    /\ UNCHANGED <<corpus, bpc, colVars, nbVars>>

\* lines 100-101
SetFormatTorch ==
    /\ bpc = "map"
    /\ Untokenized = {}
    /\ ds' = [ds EXCEPT !.format = "torch"]
    /\ bpc' = "done"
    /\ UNCHANGED <<corpus, colVars, nbVars>>

(* ------------------------------------------------------------------ *)
(* collator                                                            *)
(* ------------------------------------------------------------------ *)
KeyError == [raised |-> "KeyError"]
IndexError == [raised |-> "IndexError"]

\* d[key]
collator_get_default(d, key) ==
    IF key \in DOMAIN d THEN [ok |-> TRUE, val |-> d[key]]
    ELSE [ok |-> TRUE, val |-> 0]
collator_get_first(d, key) ==
    IF key \in DOMAIN d THEN [ok |-> TRUE, val |-> IF d[key] = 0 THEN 0 ELSE d[key] - 1]
    ELSE [ok |-> FALSE]
collator_get(d, key) ==
    IF key \in DOMAIN d THEN [ok |-> TRUE, val |-> d[key]] ELSE [ok |-> FALSE]

\* [d[key] for d in data], evaluated left to right
RECURSIVE column(_, _, _)
column(recs, key, acc) ==
    IF recs = <<>> THEN [ok |-> TRUE, val |-> acc]
    ELSE LET got == collator_get(Head(recs), key)
         IN  IF got.ok THEN column(Tail(recs), key, Append(acc, got.val))
             ELSE [ok |-> FALSE]

\* dict((key, [d[key] for d in data]) for key in data[0])
collator(recs) ==
    IF recs = <<>> THEN IndexError
    ELSE LET keys == DOMAIN recs[1]
         IN  IF \A key \in keys : column(recs, key, <<>>).ok
             THEN [key \in keys |-> column(recs, key, <<>>).val]
             ELSE KeyError

Keys == {"input_ids", "query"}
Vals == {0, 1}
Records == UNION {[S -> Vals] : S \in SUBSET Keys}
RecordLists == UNION {[1..n -> Records] : n \in 0..MaxRecords}

ColIdle == data = <<>> /\ result = <<>> /\ cpc = "idle"

InitCollate ==
    /\ data \in RecordLists
    /\ result = <<>>
    /\ cpc = "call"

\* lines 115-116
CallCollator ==
    /\ cpc = "call"
    /\ result' = collator(data)
    /\ cpc' = IF collator(data) \in {KeyError, IndexError} THEN "raised" ELSE "returned"
    /\ UNCHANGED <<data, buildVars, nbVars>>

(* ------------------------------------------------------------------ *)
(* Models and reward pipeline                                          *)
(* ------------------------------------------------------------------ *)
\* the token a model with weights w samples at position j after `query`
GenTok(w, query, j) == 10000 + 1000 * w + 100 * (query[1] \div 100) + j

\* numbers of new tokens a call with max_new_tokens = n can return: the
\* end-of-sequence token is sampled first, or not at all
GenLengths(n) == {1, n}

\* model.generate(query, max_new_tokens = n, ...) when g new tokens are sampled:
\* the prompt followed by the new tokens, the last one eos if it stopped early
hf_generate(w, query, n, g) ==
    query \o [j \in 1..g |-> IF g < n /\ j = g THEN eos_token_id
                             ELSE GenTok(w, query, j)]

\* ppo_trainer.generate(query, **generation_kwargs)
ppo_generate(w, query, kwargs, g) == hf_generate(w, query, kwargs["max_new_tokens"], g)

\* response.squeeze()[-gen_len:]
trim_response(response, gen_len) == PySuffix(response, gen_len)

RECURSIVE SumTok(_)
SumTok(text) == IF text = <<>> THEN 0 ELSE Head(text)[2] + SumTok(Tail(text))

\* the reward model's raw score of `text` for label l (function_to_apply: none)
Logit(text, l) == 10 * ((SumTok(text) + 7 * Len(text)) % 1000) + l

\* sentiment_pipe(texts, return_all_scores=True): per text, one entry per label
sentiment_pipe(txts, k) ==
    [i \in 1..Len(txts) |-> [l \in 1..k |-> [label |-> l - 1, score |-> Logit(txts[i], l - 1)]]]

\* [q + r for q, r in zip(queries, responses)]
concat_texts_crossed(queries, responses) ==
    [i \in 1..Min(Len(queries), Len(responses)) |->
        queries[i] \o responses[Min(Len(queries), Len(responses)) + 1 - i]]
concat_texts(queries, responses) ==
    [i \in 1..Min(Len(queries), Len(responses)) |-> queries[i] \o responses[i]]

\* output[1]["score"]: index 1 of a Python list is the second entry
extract_score_first(output) == [ok |-> Len(output) >= 1, val |-> IF Len(output) >= 1 THEN output[1].score ELSE 0]
extract_score(output) ==
    IF Len(output) >= 2 THEN [ok |-> TRUE, val |-> output[2].score] ELSE [ok |-> FALSE, val |-> 0]

torch_tensor(x) == <<"tensor", x>>

\* the dataset `build_dataset(config)` returned: DatasetSize tokenized reviews
\* with prompt lengths spread over the sampler's range
PromptLen(e) ==
    input_min_text_length
      + ((5 * (e - 1)) % (input_max_text_length - input_min_text_length))
BuiltRows ==
    [e \in 1..DatasetSize |->
        tokenize([review |-> [id |-> e, nchars |-> 250], label |-> e % 2], PromptLen(e))]

BaseKwargs ==
    [min_length |-> -1, top_k |-> 0, top_p |-> 1, do_sample |-> TRUE,
     pad_token_id |-> eos_token_id]

NbIdle ==
    /\ pc = "idle"
    /\ dataset = [rows |-> <<>>, format |-> "none"]
    /\ weights = 0 /\ refWeights = 0 /\ num_labels = NumLabels
    /\ output_length_sampler = [min |-> output_min_length, max |-> output_max_length]
    /\ generation_kwargs = BaseKwargs /\ gen_kwargs = BaseKwargs
    /\ batchNo = 0 /\ batch = <<>> /\ query_tensors = <<>>
    /\ response_tensors = <<>> /\ response_tensors_ref = <<>>
    /\ texts = <<>> /\ pipe_outputs = <<>> /\ rewards = <<>>
    /\ statsLog = <<>> /\ game_data = <<>> /\ df_results = <<>>
    /\ stepCalls = 0 /\ failures = 0
    /\ drawn = <<>> /\ genNew = <<>> /\ genNewRef = <<>> /\ sampleIds = <<>>

(* ------------------------------------------------------------------ *)
(* Training loop (lines 214-247)                                       *)
(* ------------------------------------------------------------------ *)
\* the state when the training cell starts: models loaded, dataset built
InitTrain ==
    /\ pc = "loop"
    /\ dataset = [rows |-> BuiltRows, format |-> "torch"]
    /\ weights = 0 /\ refWeights = 0 /\ num_labels = NumLabels
    /\ output_length_sampler = [min |-> output_min_length, max |-> output_max_length]
    /\ generation_kwargs = BaseKwargs /\ gen_kwargs = BaseKwargs
    /\ batchNo = 0 /\ batch = <<>> /\ query_tensors = <<>>
    /\ response_tensors = <<>> /\ response_tensors_ref = <<>>
    /\ texts = <<>> /\ pipe_outputs = <<>> /\ rewards = <<>>
    /\ statsLog = <<>> /\ game_data = <<>> /\ df_results = <<>>
    /\ stepCalls = 0 /\ failures = 0
    /\ drawn = <<>> /\ genNew = <<>> /\ genNewRef = <<>> /\ sampleIds = <<>>

\* ppo_trainer.dataloader: full batches only (drop_last), in dataset order
NumBatches == Len(dataset.rows) \div BatchSize
BatchRows(b) == SubSeq(dataset.rows, (b - 1) * BatchSize + 1, b * BatchSize)

\* nothing catches an exception raised inside the loop: the cell stops
after_exception_swallowed == "decode"
after_exception == "raised"

\* lines 228-229, 232: the dataloader yields the next batch
NextBatch ==
    /\ pc = "loop"
    /\ batchNo < NumBatches
    /\ batchNo' = batchNo + 1
    /\ batch' = collator(BatchRows(batchNo + 1))
    /\ query_tensors' = collator(BatchRows(batchNo + 1))["input_ids"]
    /\ response_tensors' = <<>>
    /\ drawn' = <<>> /\ genNew' = <<>>
    /\ pc' = "generate"
    /\ UNCHANGED <<sharedVars, texts, pipe_outputs, rewards, statsLog, stepCalls,
                   failures, evalVars, buildVars, colVars>>

\* the dataloader is exhausted
LoopEnd ==
    /\ pc = "loop"
    /\ batchNo >= NumBatches
    /\ pc' = "done"
    /\ UNCHANGED <<sharedVars, loopVars, evalVars, buildVars, colVars>>

\* lines 233-237: one iteration of `for query in query_tensors`
Generate ==
    /\ pc = "generate"
    /\ Len(response_tensors) < Len(query_tensors)
    /\ LET query == query_tensors[Len(response_tensors) + 1]
       IN  \E gen_len \in LengthSampler(output_length_sampler.min, output_length_sampler.max) :
           \E g \in GenLengths(gen_len) :
             LET kwargs == DictSet(generation_kwargs, "max_new_tokens", gen_len)
                 response == ppo_generate(weights, query, kwargs, g)
             IN  /\ generation_kwargs' = kwargs
                 /\ response_tensors' =
                        Append(response_tensors, trim_response(response, gen_len))
                 /\ drawn' = Append(drawn, gen_len)
                 /\ genNew' = Append(genNew, g)
    /\ pc' = IF Len(response_tensors) + 1 = Len(query_tensors) THEN "decode" ELSE "generate"
    /\ UNCHANGED <<dataset, weights, refWeights, num_labels, output_length_sampler,
                   gen_kwargs, batchNo, batch, query_tensors, texts, pipe_outputs,
                   rewards, statsLog, stepCalls, failures, evalVars, buildVars, colVars>>

\* line 236 raises (out of memory, device lost): max_new_tokens is already set
GenerateRaises ==
    /\ pc = "generate"
    /\ Len(response_tensors) < Len(query_tensors)
    /\ \E gen_len \in LengthSampler(output_length_sampler.min, output_length_sampler.max) :
           generation_kwargs' = DictSet(generation_kwargs, "max_new_tokens", gen_len)
    /\ failures' = failures + 1
    /\ pc' = after_exception
    /\ UNCHANGED <<dataset, weights, refWeights, num_labels, output_length_sampler,
                   gen_kwargs, batchNo, batch, query_tensors, response_tensors, texts,
                   pipe_outputs, rewards, statsLog, stepCalls, drawn, genNew,
                   evalVars, buildVars, colVars>>

\* line 238
DecodeResponses ==
    /\ pc = "decode"
    /\ batch' = DictSet(batch, "response",
                        [i \in 1..Len(response_tensors) |-> Decode(response_tensors[i])])
    /\ pc' = "score"
    /\ UNCHANGED <<sharedVars, batchNo, query_tensors, response_tensors, texts,
                   pipe_outputs, rewards, statsLog, stepCalls, failures, drawn, genNew,
                   evalVars, buildVars, colVars>>

\* lines 241-242
Score ==
    /\ pc = "score"
    /\ texts' = concat_texts(batch["query"], batch["response"])
    /\ pipe_outputs' = sentiment_pipe(concat_texts(batch["query"], batch["response"]), num_labels)
    /\ pc' = "rewards"
    /\ UNCHANGED <<sharedVars, batchNo, batch, query_tensors, response_tensors,
                   rewards, statsLog, stepCalls, failures, drawn, genNew,
                   evalVars, buildVars, colVars>>

\* line 242 raises
ScoreRaises ==
    /\ pc = "score"
    /\ texts' = concat_texts(batch["query"], batch["response"])
    /\ failures' = failures + 1
    /\ pc' = after_exception
    /\ UNCHANGED <<sharedVars, batchNo, batch, query_tensors, response_tensors,
                   pipe_outputs, rewards, statsLog, stepCalls, drawn, genNew,
                   evalVars, buildVars, colVars>>

\* line 243: an output with fewer than two labels raises IndexError
Rewards ==
    /\ pc = "rewards"
    /\ IF \A i \in 1..Len(pipe_outputs) : extract_score(pipe_outputs[i]).ok
       THEN /\ rewards' = [i \in 1..Len(pipe_outputs) |->
                              torch_tensor(extract_score(pipe_outputs[i]).val)]
            /\ pc' = "step"
            /\ UNCHANGED failures
       ELSE /\ failures' = failures + 1
            /\ pc' = after_exception
            /\ UNCHANGED rewards
    /\ UNCHANGED <<sharedVars, batchNo, batch, query_tensors, response_tensors, texts,
                   pipe_outputs, statsLog, stepCalls, drawn, genNew,
                   evalVars, buildVars, colVars>>

\* line 246: the PPO step updates the policy
Step ==
    /\ pc = "step"
    /\ weights' = weights + 1
    /\ stepCalls' = stepCalls + 1
    /\ pc' = "log"
    /\ UNCHANGED <<dataset, refWeights, num_labels, output_length_sampler,
                   generation_kwargs, gen_kwargs, batchNo, batch, query_tensors,
                   response_tensors, texts, pipe_outputs, rewards, statsLog, failures,
                   drawn, genNew, evalVars, buildVars, colVars>>

\* line 247
LogStats_no_record ==
    /\ pc = "log"
    /\ pc' = "loop"
    /\ UNCHANGED <<sharedVars, batchNo, batch, query_tensors, response_tensors, texts,
                   pipe_outputs, rewards, statsLog, stepCalls, failures, drawn, genNew,
                   evalVars, buildVars, colVars>>
LogStats ==
    /\ pc = "log"
    /\ statsLog' = Append(statsLog, [step |-> stepCalls, rewards |-> rewards])
    /\ pc' = "loop"
    /\ UNCHANGED <<sharedVars, batchNo, batch, query_tensors, response_tensors, texts,
                   pipe_outputs, rewards, stepCalls, failures, drawn, genNew,
                   evalVars, buildVars, colVars>>

(* ------------------------------------------------------------------ *)
(* Evaluation cell (lines 267-302)                                     *)
(* ------------------------------------------------------------------ *)
\* dataset.set_format(fmt)
set_format_dropping(d, fmt) == [rows |-> <<>>, format |-> fmt]
set_format(d, fmt) == [d EXCEPT !.format = fmt]

\* model.generate(query, max_new_tokens=gen_len, **gen_kwargs).squeeze()[-gen_len:]
eval_response_min(w, query, gen_len, g) ==
    PySuffix(hf_generate(w, query, gen_len, g), output_min_length)
eval_response(w, query, gen_len, g) ==
    PySuffix(hf_generate(w, query, gen_len, g), gen_len)

\* df.sample(k) of n rows: k distinct rows in a random order
OrderedSamples(n, k) ==
    {s \in [1..k -> 1..n] : \A i, j \in 1..k : i /= j => s[i] /= s[j]}

\* the state when the evaluation cell starts: the loop has run over every
\* full batch of a dataset of three rows; the loop's leftovers that the cell
\* overwrites before reading are left out
EvalRowsAtStart == SubSeq(BuiltRows, 1, Min(DatasetSize, 3))
InitEval ==
    /\ pc = "eval_sample"
    /\ dataset = [rows |-> EvalRowsAtStart, format |-> "torch"]
    /\ weights = Len(EvalRowsAtStart) \div BatchSize
    /\ stepCalls = Len(EvalRowsAtStart) \div BatchSize
    /\ refWeights = 0 /\ num_labels = NumLabels
    /\ output_length_sampler = [min |-> output_min_length, max |-> output_max_length]
    /\ generation_kwargs = DictSet(BaseKwargs, "max_new_tokens", output_min_length)
    /\ gen_kwargs = BaseKwargs
    /\ batchNo = 0 /\ batch = <<>> /\ query_tensors = <<>>
    /\ response_tensors = <<>> /\ response_tensors_ref = <<>>
    /\ texts = <<>> /\ pipe_outputs = <<>> /\ rewards = <<>>
    /\ statsLog = <<>> /\ game_data = <<>> /\ df_results = <<>>
    /\ failures = 0
    /\ drawn = <<>> /\ genNew = <<>> /\ genNewRef = <<>> /\ sampleIds = <<>>

\* lines 268-275: sample(bs) raises ValueError when the dataset has fewer rows
EvalSample ==
    /\ pc = "eval_sample"
    /\ dataset' = set_format(dataset, "pandas")
    /\ IF bs > Len(dataset.rows)
       THEN /\ pc' = "raised"
            /\ failures' = failures + 1
            /\ UNCHANGED <<game_data, query_tensors, response_tensors,
                           response_tensors_ref, sampleIds>>
       ELSE /\ \E ids \in OrderedSamples(Len(dataset.rows), bs) :
                 /\ sampleIds' = ids
                 /\ game_data' = [k \in {"query"} |->
                                    [i \in 1..bs |-> dataset.rows[ids[i]].query]]
                 /\ query_tensors' = [i \in 1..bs |-> dataset.rows[ids[i]].input_ids]
            /\ response_tensors' = <<>>
            /\ response_tensors_ref' = <<>>
            /\ pc' = "eval_generate"
            /\ UNCHANGED failures
    /\ drawn' = <<>> /\ genNew' = <<>> /\ genNewRef' = <<>>
    /\ UNCHANGED <<weights, refWeights, num_labels, output_length_sampler,
                   generation_kwargs, gen_kwargs, batchNo, batch, texts, pipe_outputs,
                   rewards, statsLog, stepCalls, df_results, buildVars, colVars>>

\* lines 278-287: one iteration of `for i in range(bs)`
EvalGenerate ==
    /\ pc = "eval_generate"
    /\ Len(response_tensors) < bs
    /\ LET query == query_tensors[Len(response_tensors) + 1]
       IN  \E gen_len \in LengthSampler(output_length_sampler.min, output_length_sampler.max) :
           \E gr \in GenLengths(gen_len), gp \in GenLengths(gen_len) :
               /\ response_tensors_ref' =
                     Append(response_tensors_ref, eval_response(refWeights, query, gen_len, gr))
               /\ response_tensors' =
                     Append(response_tensors, eval_response(weights, query, gen_len, gp))
               /\ drawn' = Append(drawn, gen_len)
               /\ genNewRef' = Append(genNewRef, gr)
               /\ genNew' = Append(genNew, gp)
    /\ pc' = IF Len(response_tensors) + 1 = bs THEN "eval_decode" ELSE "eval_generate"
    /\ UNCHANGED <<sharedVars, batchNo, batch, query_tensors, texts, pipe_outputs,
                   rewards, statsLog, stepCalls, failures, game_data, df_results,
                   sampleIds, buildVars, colVars>>

\* lines 290-291
EvalDecode ==
    /\ pc = "eval_decode"
    /\ game_data' =
         DictSet(DictSet(game_data, "response (before)",
                         [i \in 1..bs |-> Decode(response_tensors_ref[i])]),
                 "response (after)", [i \in 1..bs |-> Decode(response_tensors[i])])
    /\ pc' = "eval_score_before"
    /\ UNCHANGED <<sharedVars, loopVars, response_tensors_ref, df_results, genNewRef,
                   sampleIds, buildVars, colVars>>

\* texts = [q + r ...]; game_data[column] = [output[1]["score"] for output in pipe]
EvalScore(response_column, reward_column, next_pc) ==
    LET txts == concat_texts(game_data["query"], game_data[response_column])
        outs == sentiment_pipe(txts, num_labels)
    IN  /\ texts' = txts
        /\ pipe_outputs' = outs
        /\ IF \A i \in 1..Len(outs) : extract_score(outs[i]).ok
           THEN /\ game_data' = DictSet(game_data, reward_column,
                                       [i \in 1..Len(outs) |-> extract_score(outs[i]).val])
                /\ pc' = next_pc
                /\ UNCHANGED failures
           ELSE /\ failures' = failures + 1
                /\ pc' = "raised"
                /\ UNCHANGED game_data
        /\ UNCHANGED <<sharedVars, batchNo, batch, query_tensors, response_tensors,
                       rewards, statsLog, stepCalls, drawn, genNew,
                       response_tensors_ref, df_results, genNewRef, sampleIds,
                       buildVars, colVars>>

\* lines 294-295
EvalScoreBefore ==
    /\ pc = "eval_score_before"
    /\ EvalScore("response (before)", "rewards (before)", "eval_score_after")

\* lines 297-298
EvalScoreAfter ==
    /\ pc = "eval_score_after"
    /\ EvalScore("response (after)", "rewards (after)", "eval_table")

\* line 301: pd.DataFrame(game_data) needs columns of one length
EvalTable ==
    /\ pc = "eval_table"
    /\ IF \A k \in DOMAIN game_data : Len(game_data[k]) = Len(game_data["query"])
       THEN df_results' = game_data /\ pc' = "eval_done" /\ UNCHANGED failures
       ELSE UNCHANGED df_results /\ pc' = "raised" /\ failures' = failures + 1
    /\ UNCHANGED <<sharedVars, batchNo, batch, query_tensors, response_tensors, texts,
                   pipe_outputs, rewards, statsLog, stepCalls, drawn, genNew,
                   response_tensors_ref, game_data, genNewRef, sampleIds,
                   buildVars, colVars>>

(* ------------------------------------------------------------------ *)
(* Reward extraction on its own: the scoring lines of both cells, from  *)
(* any small set of texts and a reward model with any number of labels  *)
(* ------------------------------------------------------------------ *)
QueryTexts == {Decode(<<1>>), Decode(<<2>>)}
ResponseTexts == {Decode(<<3>>), Decode(<<4>>)}

InitReward ==
    /\ num_labels \in 1..MaxLabels
    /\ \E n \in 1..MaxTexts :
       \E qs \in [1..n -> QueryTexts], rs \in [1..n -> ResponseTexts] :
          \/ /\ pc = "score"
             /\ batch = [k \in {"query", "response"} |-> IF k = "query" THEN qs ELSE rs]
             /\ game_data = <<>>
          \/ /\ pc = "eval_score_before"
             /\ batch = <<>>
             /\ \E rs2 \in [1..n -> ResponseTexts] :
                  game_data = [k \in {"query", "response (before)", "response (after)"} |->
                                  IF k = "query" THEN qs
                                  ELSE IF k = "response (before)" THEN rs ELSE rs2]
    /\ dataset = [rows |-> <<>>, format |-> "torch"]
    /\ weights = 0 /\ refWeights = 0
    /\ output_length_sampler = [min |-> output_min_length, max |-> output_max_length]
    /\ generation_kwargs = BaseKwargs /\ gen_kwargs = BaseKwargs
    /\ batchNo = 1 /\ query_tensors = <<>>
    /\ response_tensors = <<>> /\ response_tensors_ref = <<>>
    /\ texts = <<>> /\ pipe_outputs = <<>> /\ rewards = <<>>
    /\ statsLog = <<>> /\ df_results = <<>>
    /\ stepCalls = 0 /\ failures = 0
    /\ drawn = <<>> /\ genNew = <<>> /\ genNewRef = <<>> /\ sampleIds = <<>>

(* ------------------------------------------------------------------ *)
(* Specifications                                                      *)
(* ------------------------------------------------------------------ *)
NextBuild ==
    \/ Load
    \/ Rename
    \/ Filter
    \/ MapTokenize
    \/ SetFormatTorch
BuildStart == InitBuild /\ ColIdle /\ NbIdle
SpecBuild == BuildStart /\ [][NextBuild]_vars

NextCollate == CallCollator
CollateStart == InitCollate /\ BuildIdle /\ NbIdle
SpecCollate == CollateStart /\ [][NextCollate]_vars

NextTrain ==
    \/ NextBatch
    \/ LoopEnd
    \/ Generate
    \/ GenerateRaises
    \/ DecodeResponses
    \/ Score
    \/ ScoreRaises
    \/ Rewards
    \/ Step
    \/ LogStats
Init == InitTrain /\ BuildIdle /\ ColIdle
Spec == Init /\ [][NextTrain]_vars

NextEval ==
    \/ EvalSample
    \/ EvalGenerate
    \/ EvalDecode
    \/ EvalScoreBefore
    \/ EvalScoreAfter
    \/ EvalTable
EvalStart == InitEval /\ BuildIdle /\ ColIdle
SpecEval == EvalStart /\ [][NextEval]_vars

NextReward ==
    \/ Score
    \/ Rewards
    \/ EvalScoreBefore
    \/ EvalScoreAfter
RewardStart == InitReward /\ BuildIdle /\ ColIdle
SpecReward == RewardStart /\ [][NextReward]_vars

(* ------------------------------------------------------------------ *)
(* Properties                                                          *)
(* ------------------------------------------------------------------ *)
\* the row of the dataset behind entry i of the current batch
BatchRow(i) == dataset.rows[(batchNo - 1) * BatchSize + i]

\* C1: when the optimisation step is invoked, queries, responses and rewards
\* each have BatchSize entries, and entry i of each belongs to the same
\* example: response i is the trimmed generation from prompt i, and reward i
\* is the positive score of decoded prompt i followed by decoded response i.
C1_BatchAligned ==
    pc = "step" =>
      /\ Len(query_tensors) = BatchSize
      /\ Len(response_tensors) = BatchSize
      /\ Len(rewards) = BatchSize
      /\ \A i \in 1..BatchSize :
           /\ query_tensors[i] = BatchRow(i).input_ids
           /\ batch["query"][i] = BatchRow(i).query
           /\ response_tensors[i] =
                 PySuffix(hf_generate(weights, BatchRow(i).input_ids, drawn[i], genNew[i]),
                          drawn[i])
           /\ batch["response"][i] = Decode(response_tensors[i])
           /\ texts[i] = Decode(BatchRow(i).input_ids) \o Decode(response_tensors[i])
           /\ rewards[i] = <<"tensor", Logit(texts[i], 1)>>

C1_Witness ==
    /\ pc = "step"
    /\ batchNo = 2
    /\ drawn[1] /= drawn[2]
    /\ rewards[1] /= rewards[2]

\* C2: every trimmed response has exactly the drawn number of tokens and is
\* made of the newly generated tokens only, whatever the prompt length and
\* also when generation stopped early.
C2_TrimmedIsExactlyGenerated ==
    \A i \in 1..Len(response_tensors) :
        (pc \in {"generate", "decode", "score", "rewards", "step", "log"} /\ i <= Len(drawn)) =>
            /\ Len(response_tensors[i]) = drawn[i]
            /\ response_tensors[i] =
                  [j \in 1..genNew[i] |->
                      hf_generate(weights, query_tensors[i], drawn[i], genNew[i])
                          [Len(query_tensors[i]) + j]]

RECURSIVE LongTexts(_)
LongTexts(rows) ==
    IF rows = <<>> THEN <<>>
    ELSE IF Head(rows).text.nchars > MinReviewChars
         THEN <<Head(rows).text>> \o LongTexts(Tail(rows))
         ELSE LongTexts(Tail(rows))

\* C3: after the filter, the dataset holds exactly the corpus texts longer
\* than the threshold, in corpus order; lengths [50, 250, 300, 10, 220] leave
\* the three texts of lengths 250, 300, 220.
C3_FilterKeepsLongTexts ==
    bpc \in {"map", "done"} =>
      /\ \A i \in 1..Len(ds.rows) : ds.rows[i].review.nchars > MinReviewChars
      /\ [i \in 1..Len(ds.rows) |-> ds.rows[i].review] = LongTexts(corpus)
      /\ \A i \in 1..Len(corpus) :
            corpus[i].text.nchars > MinReviewChars =>
               \E k \in 1..Len(ds.rows) : ds.rows[k].review = corpus[i].text
      /\ (corpus = MkCorpus(<<50, 250, 300, 10, 220>>) =>
            [i \in 1..Len(ds.rows) |-> ds.rows[i].review.nchars] = <<250, 300, 220>>)

C3_Witness ==
    /\ bpc = "done"
    /\ corpus = MkCorpus(<<50, 250, 300, 10, 220>>)
    /\ Len(ds.rows) = 3

UniformKeys(recs) == \A i \in 1..Len(recs) : DOMAIN recs[i] = DOMAIN recs[1]

\* C4: for a non-empty list of records with the same keys, collator returns
\* one list per key, each as long as the input, whose i-th value is record
\* i's value for that key; the input list is not changed.
C4_CollatorReshapes ==
    /\ [](cpc /= "call" /\ data /= <<>> /\ UniformKeys(data) =>
            /\ cpc = "returned"
            /\ DOMAIN result = DOMAIN data[1]
            /\ \A k \in DOMAIN result :
                 /\ Len(result[k]) = Len(data)
                 /\ \A i \in 1..Len(data) : result[k][i] = data[i][k])
    /\ [][data' = data]_vars

C4_Witness ==
    /\ cpc = "returned"
    /\ Len(data) = 2
    /\ DOMAIN data[1] = {"input_ids", "query"}
    /\ DOMAIN data[2] = {"input_ids", "query"}
    /\ data[1]["query"] = 0 /\ data[2]["query"] = 1
    /\ result["query"] = <<0, 1>>

\* C5: collator raises exactly when some record lacks a key of the first
\* record (a key only a later record has does not matter), and a batch it
\* returns has the first record's keys with lists of one length.
C5_CollatorMissingKey ==
    (cpc /= "call" /\ data /= <<>>) =>
      /\ (\E i \in 1..Len(data) : \E k \in DOMAIN data[1] : k \notin DOMAIN data[i])
            <=> (cpc = "raised" /\ result = [raised |-> "KeyError"])
      /\ cpc = "returned" =>
            /\ DOMAIN result = DOMAIN data[1]
            /\ \A k \in DOMAIN result : Len(result[k]) = Len(data)

C5_Witness ==
    /\ cpc = "raised"
    /\ Len(data) = 2
    /\ DOMAIN data[1] = {"input_ids", "query"}
    /\ DOMAIN data[2] = {"query"}

EvalColumns ==
    {"query", "response (before)", "response (after)", "rewards (before)", "rewards (after)"}

\* C6: in the finished table every column has bs entries, and row i of the
\* before and the after columns comes from the same sampled example, the
\* same drawn length and the same prompt text; only the generating model
\* differs.
C6_EvalSymmetric ==
    pc = "eval_done" =>
      /\ DOMAIN df_results = EvalColumns
      /\ \A k \in EvalColumns : Len(df_results[k]) = bs
      /\ Len(drawn) = bs
      /\ \A i \in 1..bs :
           LET row == dataset.rows[sampleIds[i]]
               before == Decode(PySuffix(
                   hf_generate(refWeights, row.input_ids, drawn[i], genNewRef[i]), drawn[i]))
               after == Decode(PySuffix(
                   hf_generate(weights, row.input_ids, drawn[i], genNew[i]), drawn[i]))
           IN  /\ df_results["query"][i] = row.query
               /\ df_results["response (before)"][i] = before
               /\ df_results["response (after)"][i] = after
               /\ df_results["rewards (before)"][i] = Logit(row.query \o before, 1)
               /\ df_results["rewards (after)"][i] = Logit(row.query \o after, 1)

C6_Witness ==
    /\ pc = "eval_done"
    /\ drawn[1] /= drawn[2]
    /\ df_results["response (before)"][1] /= df_results["response (after)"][1]
    /\ df_results["rewards (before)"][2] /= df_results["rewards (after)"][2]

C8_ExceptionAborts ==
    /\ [](failures > 0 =>
            /\ pc = "raised"
            /\ failures = 1
            /\ stepCalls = batchNo - 1
            /\ weights = batchNo - 1
            /\ Len(statsLog) = batchNo - 1)
    /\ [][pc /= "raised"]_vars

C8_Witness ==
    /\ pc = "raised"
    /\ batchNo = 2
    /\ Len(response_tensors) = 1
    /\ weights = 1

InBatch == {"generate", "decode", "score", "rewards", "step", "log"}

\* the steps and records that the claim's frame part speaks of
StepOnlyWhenBatchReady ==
    /\ weights' /= weights =>
          /\ pc = "step"
          /\ weights' = weights + 1
          /\ Len(response_tensors) = Len(query_tensors)
          /\ Len(rewards) = Len(query_tensors)
    /\ statsLog' /= statsLog => pc = "log" /\ stepCalls = batchNo
    /\ UNCHANGED <<dataset, refWeights, gen_kwargs, output_length_sampler, num_labels>>

RewardFromOwnOutput(col, wrap) ==
    /\ num_labels >= 2
    /\ Len(col) = Len(texts)
    /\ Len(pipe_outputs) = Len(texts)
    /\ \A i \in 1..Len(texts) :
         /\ Len(pipe_outputs[i]) = num_labels
         /\ pipe_outputs[i][2].label = 1
         /\ pipe_outputs[i][2].score = Logit(texts[i], 1)
         /\ col[i] = IF wrap THEN <<"tensor", pipe_outputs[i][2].score>>
                        ELSE pipe_outputs[i][2].score
C10_RewardIsIndexOne ==
    /\ pc = "step" =>
          /\ RewardFromOwnOutput(rewards, TRUE)
          /\ \A i \in 1..Len(texts) : texts[i] = batch["query"][i] \o batch["response"][i]
    /\ pc = "eval_score_after" =>
          /\ RewardFromOwnOutput(game_data["rewards (before)"], FALSE)
          /\ \A i \in 1..Len(texts) :
                texts[i] = game_data["query"][i] \o game_data["response (before)"][i]
    /\ pc = "eval_table" =>
          /\ RewardFromOwnOutput(game_data["rewards (after)"], FALSE)
          /\ \A i \in 1..Len(texts) :
                texts[i] = game_data["query"][i] \o game_data["response (after)"][i]
    /\ pc = "raised" => num_labels < 2

C10_Witness ==
    /\ pc = "eval_table"
    /\ num_labels = 3
    /\ Len(texts) = 2
    /\ game_data["rewards (after)"][1] /= game_data["rewards (after)"][2]
    /\ game_data["rewards (after)"][1] /= game_data["rewards (before)"][1]

====
